---- MODULE Spec2Model ----
(***************************************************************************)
(* Model of the InvenTree plugin creator (plugin_creator/cli.py and        *)
(* plugin_creator/frontend.py).                                            *)
(*                                                                         *)
(* Strings the program transforms (title, description, author fields) are  *)
(* sequences of one-character strings, so that strip / replace / lower     *)
(* are computed as Python computes them.  Identifiers the program only     *)
(* passes around (license keys, package names, CI modes) are TLA+ strings. *)
(***************************************************************************)
EXTENDS Integers, Sequences, FiniteSets, TLC

VARIABLES
    pc,            \* position of main / of the frontend driver
    args,          \* parsed command line: [default, skip_install]
    config,        \* content of the user config file
    context,       \* the context dict of main
    loaded,        \* what config.load_config() returned to main
    prompts,       \* prompts answered so far, in order: [prompt, answer]
    steps,         \* steps of main started so far, in order
    render_calls,  \* calls of cookiecutter(...): [no_input, extra_context]
    fs,            \* plugin_dir: [rendered, frontend, ci]
    cmds,          \* subprocess.run calls launched: [argv, rc]
    err,           \* exception that ended the run, or "none"
    call           \* last direct call of a frontend function

vars == <<pc, args, config, loaded, context, prompts, steps, render_calls, fs, cmds, err, call>>

----------------------------------------------------------------------------
(* Bounds *)

MaxTitleLen == 3

----------------------------------------------------------------------------
(* Strings as sequences of characters *)

Chars == {"A", " ", "-"}

\* str.lower()
LowerChar(c) == IF c = "A" THEN "a" ELSE c

RECURSIVE Lower(_)
Lower(s) ==
    IF s = <<>> THEN <<>> ELSE <<LowerChar(Head(s))>> \o Lower(Tail(s))

\* str.replace(old, new) for a one-character old and new
RECURSIVE Replace(_, _, _)
Replace(s, old, new) ==
    IF s = <<>>
    THEN <<>>
    ELSE <<IF Head(s) = old THEN new ELSE Head(s)>> \o Replace(Tail(s), old, new)

\* str.replace(old, "")
Remove(s, old) == SelectSeq(s, LAMBDA c : c # old)

RECURSIVE LStrip(_)
LStrip(s) == IF s # <<>> /\ Head(s) = " " THEN LStrip(Tail(s)) ELSE s

RECURSIVE RStrip(_)
RStrip(s) ==
    IF s # <<>> /\ s[Len(s)] = " " THEN RStrip(SubSeq(s, 1, Len(s) - 1)) ELSE s

\* str.strip()
Strip(s) == RStrip(LStrip(s))

StringsUpTo(n) == UNION {[1..k -> Chars] : k \in 0..n}

\* what the user may type at the plugin name prompt
TitleInputs == StringsUpTo(MaxTitleLen)

\* what the user may type at the other text prompts
TextInputs == {<<>>, <<" ">>, <<"x">>, <<" ", "x">>}

----------------------------------------------------------------------------
(* frontend.py: package and feature lists *)

enforced_packages == <<"react", "react-dom", "@mantine/core">>

available_packages == <<"@mantine/hooks", "@mantine/charts", "@tabler/icons-react">>

Range(s) == {s[i] : i \in 1..Len(s)}

frontend_features == [dashboard |-> "Custom dashboard items", panel |-> "Custom panel items"]

all_features == [key \in DOMAIN frontend_features |-> TRUE]

no_features == [key \in DOMAIN frontend_features |-> FALSE]

\* questionary.checkbox over available_packages: the checked titles, in
\* the order of the choices
select_packages_results ==
    {SelectSeq(available_packages, LAMBDA p : p \in S) : S \in SUBSET Range(available_packages)}

\* select_features for a set of checked titles
select_features(selected) ==
    LET selected_keys == {key \in DOMAIN frontend_features : frontend_features[key] \in selected}
    IN  [key \in DOMAIN frontend_features |-> key \in selected_keys]

FeatureTitles == {frontend_features[key] : key \in DOMAIN frontend_features}

----------------------------------------------------------------------------
(* Collaborators whose code is not in the source tree *)

PLUGIN_CREATOR_VERSION == "VERSION"

license_keys == {"MIT", "GPL-3.0"}

license_render(key, name, email) == <<key, name, email>>

ProjectNameValidator(text) == Strip(text) # <<>>

NotEmptyValidator(text) == Strip(text) # <<>>

get_mixins_results == {<<>>, <<"UserInterfaceMixin">>}

devops_modes == {"none", "github"}

CiDirs == {"github", "gitlab"}

\* devops.cleanup_devops_files: keeps only the CI files of the chosen mode
cleanup_devops_files(mode, dir) ==
    [dir EXCEPT !.ci = dir.ci \cap {mode}]

\* template/cookiecutter.json
default_values ==
    [plugin_title           |-> <<"A">>,
     plugin_description     |-> <<"x">>,
     plugin_name            |-> <<"A">>,
     plugin_slug            |-> <<"a">>,
     package_name           |-> <<"a">>,
     author_name            |-> <<"x">>,
     author_email           |-> <<>>,
     project_url            |-> <<>>,
     license_key            |-> "MIT",
     license_text           |-> license_render("MIT", <<"x">>, <<>>),
     plugin_mixins          |-> [mixin_list |-> <<"UserInterfaceMixin">>],
     frontend               |-> [enabled |-> TRUE, packages |-> <<>>, features |-> all_features],
     ci_support             |-> "github",
     plugin_creator_version |-> ""]

NoConfig == [key \in {} |-> <<>>]

\* config.load_config: what an earlier run saved, or nothing
StoredConfigs ==
    {NoConfig,
     [default_values EXCEPT
        !.plugin_creator_version = PLUGIN_CREATOR_VERSION,
        !.frontend = [enabled |-> TRUE, packages |-> <<"@mantine/hooks">>, features |-> all_features]],
     [default_values EXCEPT
        !.plugin_creator_version = PLUGIN_CREATOR_VERSION,
        !.plugin_mixins = [mixin_list |-> <<>>],
        !.frontend = [enabled |-> FALSE, packages |-> <<>>, features |-> no_features],
        !.ci_support = "none"]}

\* dict.update
Update(d, other) ==
    [key \in DOMAIN d \cup DOMAIN other |-> IF key \in DOMAIN other THEN other[key] ELSE d[key]]

\* config.save_config: the file is overwritten with the context
save_config(ctx) == ctx

----------------------------------------------------------------------------
(* frontend.py: remove_frontend and update_frontend *)

Run(argv, rc) == [argv |-> argv, rc |-> rc]

\* variant: the command is launched without the os.path.exists test
remove_frontend_unconditional(dir) ==
    [fs |-> [dir EXCEPT !.frontend = FALSE], cmds |-> <<Run(<<"rm", "-r", "frontend">>, 0)>>]

\* remove_frontend(plugin_dir): the directory afterwards and the
\* commands launched
remove_frontend(dir) ==
    IF dir.frontend
    THEN [fs |-> [dir EXCEPT !.frontend = FALSE], cmds |-> <<Run(<<"rm", "-r", "frontend">>, 0)>>]
    ELSE [fs |-> dir, cmds |-> <<>>]

update_frontend_params == <<"plugin_dir", "additional_packages">>

update_frontend_packages(additional_packages) ==
    IF additional_packages # <<>>
    THEN enforced_packages \o additional_packages
    ELSE enforced_packages

\* variant: subprocess.run(..., check=True), the first non-zero exit status
\* raises CalledProcessError
update_frontend_checked(dir, additional_packages, rcs) ==
    LET packages == update_frontend_packages(additional_packages)
        total    == Len(packages) + 1
        argv(i)  == IF i <= Len(packages) THEN <<"npm", "install", packages[i]>> ELSE <<"npm", "update">>
        failed   == {i \in 1..total : rcs[i] # 0}
        last     == IF failed = {} THEN total ELSE CHOOSE i \in failed : \A j \in failed : i <= j
    IN  IF ~dir.frontend
        THEN [cmds |-> <<>>, err |-> "FileNotFoundError"]
        ELSE [cmds |-> [i \in 1..last |-> Run(argv(i), rcs[i])],
              err  |-> IF failed = {} THEN "none" ELSE "CalledProcessError"]

\* update_frontend(plugin_dir, additional_packages) where rcs[i] is the exit
\* status of the i-th process; subprocess.run raises when cwd is missing
update_frontend(dir, additional_packages, rcs) ==
    LET packages == update_frontend_packages(additional_packages)
    IN  IF ~dir.frontend
        THEN [cmds |-> <<>>, err |-> "FileNotFoundError"]
        ELSE [cmds |-> [i \in 1..Len(packages) |-> Run(<<"npm", "install", packages[i]>>, rcs[i])]
                       \o <<Run(<<"npm", "update">>, rcs[Len(packages) + 1])>>,
              err  |-> "none"]

ExitCodes == {0, 1}

----------------------------------------------------------------------------
(* cli.py: gather_info *)

plugin_name_of(title) == Remove(title, " ")

plugin_slug_of(title) == Lower(Replace(title, " ", "-"))

\* variant: the slug is used as the package name
package_name_of_slug(slug) == slug

package_name_of(slug) == Replace(slug, "-", "_")

\* a prompt returns: answer is the value gather_info keeps
Answered(prompt, answer) == [prompt |-> prompt, answer |-> answer]

PromptNames == [i \in DOMAIN prompts |-> prompts[i].prompt]

MainFrame == UNCHANGED <<args, config, loaded, steps, render_calls, fs, cmds, err, call>>

\* "Enter plugin name"
AskTitle ==
    /\ pc = "title"
    /\ \E text \in TitleInputs :
         /\ ProjectNameValidator(text)
         /\ context' = [context EXCEPT !.plugin_title = Strip(text)]
         /\ prompts' = Append(prompts, Answered("plugin_title", Strip(text)))
    /\ pc' = "description"
    /\ MainFrame

\* "Enter plugin description", then the derived names
AskDescription ==
    /\ pc = "description"
    /\ \E text \in TextInputs :
         /\ NotEmptyValidator(text)
         /\ LET slug == plugin_slug_of(context.plugin_title)
            IN  context' = [context EXCEPT
                              !.plugin_description = Strip(text),
                              !.plugin_name = plugin_name_of(context.plugin_title),
                              !.plugin_slug = slug,
                              !.package_name = package_name_of(slug)]
         /\ prompts' = Append(prompts, Answered("plugin_description", Strip(text)))
    /\ pc' = "author_name"
    /\ MainFrame

\* variant: the author name prompt without its validator
AskAuthorName_unvalidated ==
    /\ pc = "author_name"
    /\ \E text \in TextInputs :
         /\ context' = [context EXCEPT !.author_name = Strip(text)]
         /\ prompts' = Append(prompts, Answered("author_name", Strip(text)))
    /\ pc' = "author_email"
    /\ MainFrame

\* "Author name"
AskAuthorName ==
    /\ pc = "author_name"
    /\ \E text \in TextInputs :
         /\ NotEmptyValidator(text)
         /\ context' = [context EXCEPT !.author_name = Strip(text)]
         /\ prompts' = Append(prompts, Answered("author_name", Strip(text)))
    /\ pc' = "author_email"
    /\ MainFrame

\* "Author email": no validator
AskAuthorEmail ==
    /\ pc = "author_email"
    /\ \E text \in TextInputs :
         /\ context' = [context EXCEPT !.author_email = Strip(text)]
         /\ prompts' = Append(prompts, Answered("author_email", Strip(text)))
    /\ pc' = "project_url"
    /\ MainFrame

\* "Project URL": no validator
AskProjectUrl ==
    /\ pc = "project_url"
    /\ \E text \in TextInputs :
         /\ context' = [context EXCEPT !.project_url = Strip(text)]
         /\ prompts' = Append(prompts, Answered("project_url", Strip(text)))
    /\ pc' = "license"
    /\ MainFrame

\* "Select a license", then the rendered license text
SelectLicense ==
    /\ pc = "license"
    /\ \E key \in license_keys :
         /\ context' = [context EXCEPT
                          !.license_key = key,
                          !.license_text = license_render(key, context.author_name, context.author_email)]
         /\ prompts' = Append(prompts, Answered("license_key", key))
    /\ pc' = "mixins"
    /\ MainFrame

\* mixins.get_mixins()
GetMixins ==
    /\ pc = "mixins"
    /\ \E plugin_mixins \in get_mixins_results :
         /\ context' = [context EXCEPT !.plugin_mixins = [mixin_list |-> plugin_mixins]]
         /\ prompts' = Append(prompts, Answered("plugin_mixins", plugin_mixins))
    /\ pc' = "frontend"
    /\ MainFrame

\* "Add User Interface support?" accepted: package and feature selection
FrontendAccepted ==
    /\ pc = "frontend"
    /\ \E packages \in select_packages_results, selected \in SUBSET FeatureTitles :
         /\ context' = [context EXCEPT
                          !.frontend = [enabled  |-> TRUE,
                                        packages |-> packages,
                                        features |-> select_features(selected)]]
         /\ prompts' = prompts \o <<Answered("frontend_confirm", TRUE),
                                     Answered("frontend_packages", packages),
                                     Answered("frontend_features", select_features(selected))>>
    /\ pc' = "devops"
    /\ MainFrame

\* variant: declining only clears the enabled flag
FrontendDeclined_keeps_selection ==
    /\ pc = "frontend"
    /\ context' = [context EXCEPT !.frontend.enabled = FALSE]
    /\ prompts' = Append(prompts, Answered("frontend_confirm", FALSE))
    /\ pc' = "devops"
    /\ MainFrame

\* "Add User Interface support?" declined
FrontendDeclined ==
    /\ pc = "frontend"
    /\ context' = [context EXCEPT
                     !.frontend = [enabled  |-> FALSE,
                                   packages |-> <<>>,
                                   features |-> no_features]]
    /\ prompts' = Append(prompts, Answered("frontend_confirm", FALSE))
    /\ pc' = "devops"
    /\ MainFrame

\* devops.get_devops_mode(), then gather_info returns
GetDevopsMode ==
    /\ pc = "devops"
    /\ \E mode \in devops_modes :
         /\ context' = [context EXCEPT !.ci_support = mode]
         /\ prompts' = Append(prompts, Answered("ci_support", mode))
    /\ pc' = "save"
    /\ MainFrame

gather_info ==
    \/ AskTitle
    \/ AskDescription
    \/ AskAuthorName
    \/ AskAuthorEmail
    \/ AskProjectUrl
    \/ SelectLicense
    \/ GetMixins
    \/ FrontendAccepted
    \/ FrontendDeclined
    \/ GetDevopsMode

----------------------------------------------------------------------------
(* cli.py: main and cleanup *)

\* variant: --default is not consulted
MainLoad_always_gathers ==
    /\ pc = "start"
    /\ loaded' = config
    /\ context' = [Update(default_values, config) EXCEPT
                     !.plugin_creator_version = PLUGIN_CREATOR_VERSION]
    /\ steps' = <<"load", "gather">>
    /\ pc' = "title"
    /\ UNCHANGED <<args, config, prompts, render_calls, fs, cmds, err, call>>

\* default_values(), config.load_config(), the version, and the branch on
\* --default
MainLoad ==
    /\ pc = "start"
    /\ loaded' = config
    /\ context' = [Update(default_values, config) EXCEPT
                     !.plugin_creator_version = PLUGIN_CREATOR_VERSION]
    /\ steps' = IF args.default THEN <<"load">> ELSE <<"load", "gather">>
    /\ pc' = IF args.default THEN "save" ELSE "title"
    /\ UNCHANGED <<args, config, prompts, render_calls, fs, cmds, err, call>>

\* variant: the config is saved after cleanup only, so the render starts
\* with the old file
MainSave_deferred ==
    /\ pc = "save"
    /\ steps' = steps
    /\ pc' = "render"
    /\ UNCHANGED <<args, config, loaded, context, prompts, render_calls, fs, cmds, err, call>>

\* config.save_config(context)
MainSave ==
    /\ pc = "save"
    /\ config' = save_config(context)
    /\ steps' = Append(steps, "save")
    /\ pc' = "render"
    /\ UNCHANGED <<args, loaded, context, prompts, render_calls, fs, cmds, err, call>>

\* cookiecutter(src_path, no_input=True, extra_context=context,
\* overwrite_if_exists=True) returns: the template decides which optional
\* subtrees it writes, and nothing already in the directory is deleted
MainRender ==
    /\ pc = "render"
    /\ render_calls' = Append(render_calls, [no_input |-> TRUE, extra_context |-> context])
    /\ steps' = Append(steps, "render")
    /\ \E frontend \in BOOLEAN, ci \in {{}, CiDirs} :
         fs' = [rendered |-> TRUE,
                frontend |-> fs.frontend \/ frontend,
                ci       |-> fs.ci \cup ci]
    /\ pc' = "cleanup"
    /\ UNCHANGED <<args, config, loaded, context, prompts, cmds, err, call>>

\* cookiecutter(...) raises: the directory is left partially written
MainRenderFails ==
    /\ pc = "render"
    /\ render_calls' = Append(render_calls, [no_input |-> TRUE, extra_context |-> context])
    /\ steps' = Append(steps, "render")
    /\ \E frontend \in BOOLEAN :
         fs' = [fs EXCEPT !.frontend = fs.frontend \/ frontend]
    /\ err' = "RenderError"
    /\ pc' = "failed"
    /\ UNCHANGED <<args, config, loaded, context, prompts, cmds, call>>

\* the arguments cleanup passes to frontend.update_frontend
cleanup_update_args(ctx) ==
    <<"plugin_dir", ctx.frontend.features, ctx.frontend.packages>>

\* a Python call with more positional arguments than parameters raises
\* TypeError before the body runs
TooManyArguments(params, arguments) == Len(arguments) > Len(params)

\* variant: skip_install is not consulted
cleanup_branch_always_installs(enabled, skip_install) ==
    IF enabled THEN "update_frontend" ELSE "remove_frontend"

\* variant: the removal is nested under the skip_install test
cleanup_branch_nested(enabled, skip_install) ==
    IF ~skip_install
    THEN IF enabled THEN "update_frontend" ELSE "remove_frontend"
    ELSE "nothing"

\* cleanup: which frontend step runs
cleanup_branch(enabled, skip_install) ==
    IF enabled
    THEN IF ~skip_install THEN "update_frontend" ELSE "nothing"
    ELSE "remove_frontend"

\* cleanup(plugin_dir, context, skip_install)
Cleanup ==
    /\ pc = "cleanup"
    /\ steps' = Append(steps, "cleanup")
    /\ LET dir    == cleanup_devops_files(context.ci_support, fs)
           branch == cleanup_branch(context.frontend.enabled, args.skip_install)
           passed == cleanup_update_args(context)
       IN  CASE branch = "update_frontend" ->
                  IF TooManyArguments(update_frontend_params, passed)
                  THEN /\ fs' = dir
                       /\ cmds' = cmds
                       /\ err' = "TypeError"
                       /\ pc' = "failed"
                  ELSE \E rcs \in [1..(Len(update_frontend_packages(passed[2])) + 1) -> ExitCodes] :
                         LET r == update_frontend(dir, passed[2], rcs)
                         IN  /\ fs' = dir
                             /\ cmds' = cmds \o r.cmds
                             /\ err' = r.err
                             /\ pc' = IF r.err = "none" THEN "done" ELSE "failed"
             [] branch = "nothing" ->
                  /\ fs' = dir
                  /\ cmds' = cmds
                  /\ err' = err
                  /\ pc' = "done"
             [] branch = "remove_frontend" ->
                  LET r == remove_frontend(dir)
                  IN  /\ fs' = r.fs
                      /\ cmds' = cmds \o r.cmds
                      /\ err' = err
                      /\ pc' = "done"
    /\ UNCHANGED <<args, config, loaded, context, prompts, render_calls, call>>

NoCall == [fn |-> "none", packages |-> <<>>, base |-> 0, n |-> 0]

FreshDir == [rendered |-> FALSE, frontend |-> FALSE, ci |-> {}]

Init ==
    /\ pc = "start"
    /\ args \in [default : BOOLEAN, skip_install : BOOLEAN]
    /\ config \in StoredConfigs
    /\ loaded = NoConfig
    /\ context = NoConfig
    /\ prompts = <<>>
    /\ steps = <<>>
    /\ render_calls = <<>>
    /\ fs = FreshDir
    /\ cmds = <<>>
    /\ err = "none"
    /\ call = NoCall

Next ==
    \/ MainLoad
    \/ gather_info
    \/ MainSave
    \/ MainRender
    \/ MainRenderFails
    \/ Cleanup

Spec == Init /\ [][Next]_vars

----------------------------------------------------------------------------
(* frontend.py called directly on a generated plugin directory *)

MaxCalls == 2

NpmLaunched == \E i \in 1..Len(cmds) : cmds[i].argv[1] = "npm"

DriverFrame == UNCHANGED <<args, config, loaded, context, prompts, steps, render_calls>>

CallUpdateFrontend ==
    /\ pc = "driver"
    /\ call.n < MaxCalls
    /\ ~NpmLaunched
    /\ \E additional_packages \in select_packages_results :
         \E rcs \in [1..(Len(update_frontend_packages(additional_packages)) + 1) -> ExitCodes] :
           LET r == update_frontend(fs, additional_packages, rcs)
           IN  /\ call' = [fn |-> "update_frontend", packages |-> additional_packages,
                           base |-> Len(cmds), n |-> call.n + 1]
               /\ cmds' = cmds \o r.cmds
               /\ err' = r.err
               /\ pc' = IF r.err = "none" THEN "driver" ELSE "raised"
    /\ UNCHANGED fs
    /\ DriverFrame

CallRemoveFrontend ==
    /\ pc = "driver"
    /\ call.n < MaxCalls
    /\ LET r == remove_frontend(fs)
       IN  /\ call' = [fn |-> "remove_frontend", packages |-> <<>>,
                       base |-> Len(cmds), n |-> call.n + 1]
           /\ fs' = r.fs
           /\ cmds' = cmds \o r.cmds
    /\ UNCHANGED <<pc, err>>
    /\ DriverFrame

InitFrontend ==
    /\ pc = "driver"
    /\ args = [default |-> TRUE, skip_install |-> FALSE]
    /\ config = NoConfig
    /\ loaded = NoConfig
    /\ context = default_values
    /\ prompts = <<>>
    /\ steps = <<>>
    /\ render_calls = <<>>
    /\ fs \in [rendered : {TRUE}, frontend : BOOLEAN, ci : SUBSET CiDirs]
    /\ cmds = <<>>
    /\ err = "none"
    /\ call = NoCall

NextFrontend ==
    \/ CallUpdateFrontend
    \/ CallRemoveFrontend

SpecFrontend == InitFrontend /\ [][NextFrontend]_vars

----------------------------------------------------------------------------
(* Properties *)

Asked(prompt) == \E i \in DOMAIN prompts : prompts[i].prompt = prompt

\* the names are derived once the description prompt has returned
NamesDerived == Asked("plugin_description")

\* C1 (as stated): once gather_info has derived the names, package_name is
\* the lowercased title with every space replaced by '_' and no other
\* character altered.
C1_PackageNameSpacesOnly ==
    NamesDerived =>
        context.package_name = Replace(Lower(context.plugin_title), " ", "_")

\* C1 (amended): once gather_info has derived the names, package_name is the
\* lowercased stored (stripped) title with every space and every '-'
\* replaced by '_', and no other character altered.
C1_PackageNameSpacesAndHyphens ==
    NamesDerived =>
        context.package_name =
            Replace(Replace(Lower(context.plugin_title), " ", "_"), "-", "_")

C1_Witness ==
    /\ NamesDerived
    /\ {"A", " ", "-"} \subseteq Range(context.plugin_title)
    /\ "_" \in Range(context.package_name)

CleanupEnded == pc \in {"done", "failed"} /\ "cleanup" \in Range(steps)

Argvs(log) == [i \in DOMAIN log |-> log[i].argv]

Installs(packages) ==
    [i \in 1..Len(packages) |-> <<"npm", "install", packages[i]>>] \o <<<<"npm", "update">>>>

\* C2: when cleanup has run with frontend enabled and skip_install false,
\* the package manager was invoked once per package, in order, for the
\* always-installed packages followed by the selected packages, then one
\* update command, and cleanup completed without error.
C2_InstallsThenUpdate ==
    (CleanupEnded /\ context.frontend.enabled /\ ~args.skip_install) =>
        /\ pc = "done"
        /\ err = "none"
        /\ Argvs(cmds) = Installs(enforced_packages \o context.frontend.packages)

DefaultContext(stored) ==
    [Update(default_values, stored) EXCEPT !.plugin_creator_version = PLUGIN_CREATOR_VERSION]

\* C4: in a run with --default no prompt is issued, the renderer is called
\* with input disabled, and the context that is saved, rendered and cleaned
\* up with is the packaged defaults overlaid with the stored config plus
\* the tool version.
C4_DefaultRunIsSilentAndDetermined ==
    args.default =>
        /\ prompts = <<>>
        /\ "gather" \notin Range(steps)
        /\ pc # "start" => context = DefaultContext(loaded)
        /\ "save" \in Range(steps) => config = DefaultContext(loaded)
        /\ \A i \in DOMAIN render_calls :
             /\ render_calls[i].no_input
             /\ render_calls[i].extra_context = DefaultContext(loaded)

C4_Witness ==
    /\ args.default
    /\ pc = "done"
    /\ loaded # NoConfig
    /\ Len(render_calls) = 1
    /\ prompts = <<>>

Declined ==
    \E i \in DOMAIN prompts :
        prompts[i].prompt = "frontend_confirm" /\ prompts[i].answer = FALSE

\* C5: when "Add User Interface support?" is declined, neither the package
\* selection nor the feature selection prompt is issued and the context has
\* frontend.enabled false, no packages and every feature false.
C5_DeclinedSkipsDependentPrompts ==
    Declined =>
        /\ ~Asked("frontend_packages")
        /\ ~Asked("frontend_features")
        /\ context.frontend.enabled = FALSE
        /\ context.frontend.packages = <<>>
        /\ DOMAIN context.frontend.features = {"dashboard", "panel"}
        /\ \A key \in DOMAIN context.frontend.features : context.frontend.features[key] = FALSE

C5_Witness ==
    /\ Declined
    /\ pc = "save"
    /\ loaded # NoConfig
    /\ loaded.frontend.enabled
    /\ loaded.frontend.packages # <<>>

ValidatedTextPrompts == {"plugin_title", "plugin_description", "author_name"}

FreeTextPrompts == {"author_email", "project_url"}

ClosedSetAnswers ==
    /\ Asked("license_key") => context.license_key \in license_keys
    /\ Asked("frontend_packages") =>
         /\ Range(context.frontend.packages) \subseteq Range(available_packages)
         /\ Len(context.frontend.packages) = Cardinality(Range(context.frontend.packages))
    /\ Asked("frontend_features") =>
         /\ DOMAIN context.frontend.features = DOMAIN frontend_features
         /\ \A key \in DOMAIN context.frontend.features :
              context.frontend.features[key] \in BOOLEAN

\* C6 (as stated): every text prompt of gather_info (plugin name,
\* description, author name, author email, project URL) leaves a non-empty
\* string in the context, the license is one of the license identifiers,
\* and packages and features are subsets of their closed sets.
C6_EveryTextAnswerNonEmpty ==
    /\ \A i \in DOMAIN prompts :
         prompts[i].prompt \in ValidatedTextPrompts \cup FreeTextPrompts =>
             /\ prompts[i].answer # <<>>
             /\ context[prompts[i].prompt] = prompts[i].answer
    /\ ClosedSetAnswers

\* C6 (amended): the validated text prompts (plugin name, description,
\* author name) leave a non-empty stripped string in the context; author
\* email and project URL leave a stripped string that may be empty; the
\* license is one of the license identifiers, and packages and features are
\* subsets of their closed sets.
C6_ValidatedTextAnswersNonEmpty ==
    /\ \A i \in DOMAIN prompts :
         /\ prompts[i].prompt \in ValidatedTextPrompts =>
              /\ prompts[i].answer # <<>>
              /\ context[prompts[i].prompt] = prompts[i].answer
         /\ prompts[i].prompt \in ValidatedTextPrompts \cup FreeTextPrompts =>
              /\ context[prompts[i].prompt] = prompts[i].answer
              /\ Strip(prompts[i].answer) = prompts[i].answer
    /\ ClosedSetAnswers

C6_Witness ==
    /\ pc = "save"
    /\ Asked("project_url")
    /\ context.author_email = <<>>
    /\ context.project_url = <<>>
    /\ context.author_name # <<>>
    /\ Asked("frontend_packages")
    /\ Len(context.frontend.packages) = 2

IsPrefix(s, t) == Len(s) <= Len(t) /\ SubSeq(t, 1, Len(s)) = s

ExpectedSteps ==
    IF args.default
    THEN <<"load", "save", "render", "cleanup">>
    ELSE <<"load", "gather", "save", "render", "cleanup">>

\* C7: main starts its steps in the fixed order load, gather_info (unless
\* --default), save, render, cleanup, each at most once; when the render
\* starts the config file already holds the final context, and it still
\* does after a failure of render or cleanup.
C7_FixedOrderAndConfigPersisted ==
    /\ IsPrefix(steps, ExpectedSteps)
    /\ "render" \in Range(steps) =>
         /\ config = context
         /\ Len(render_calls) = 1
         /\ render_calls[1].extra_context = context
    /\ "render" \notin Range(steps) => render_calls = <<>>
    /\ ~args.default /\ "save" \in Range(steps) => Asked("ci_support")
    /\ "cleanup" \in Range(steps) => fs.rendered
    /\ pc = "done" => steps = ExpectedSteps
    /\ pc = "failed" => config = context

C7_Witness ==
    /\ pc = "failed"
    /\ err = "TypeError"
    /\ ~args.default
    /\ loaded = NoConfig
    /\ config = context
    /\ steps = ExpectedSteps

\* C8: when update_frontend launches the package manager, every package of
\* the list is attempted exactly once in list order whatever the exit
\* statuses are, the update command follows, and update_frontend returns
\* without raising.
C8_ExitStatusNeverConsulted ==
    (call.fn = "update_frontend" /\ fs.frontend) =>
        /\ err = "none"
        /\ pc = "driver"
        /\ Argvs(SubSeq(cmds, call.base + 1, Len(cmds))) =
               Installs(enforced_packages \o call.packages)

C8_Witness ==
    /\ call.fn = "update_frontend"
    /\ Len(call.packages) = 2
    /\ Len(cmds) = call.base + 6
    /\ cmds[call.base + 1].rc = 1
    /\ cmds[call.base + 4].rc = 1
    /\ cmds[call.base + 5].rc = 0
    /\ cmds[call.base + 6].argv = <<"npm", "update">>
    /\ err = "none"

\* C9: a cleanup step with skip_install true and frontend enabled launches
\* no command, raises nothing, completes, and changes the generated
\* directory only by the CI-file cleanup.
C9_SkipInstallLeavesFrontendAlone ==
    [][(pc = "cleanup" /\ context.frontend.enabled /\ args.skip_install) =>
          /\ cmds' = cmds
          /\ err' = err
          /\ pc' = "done"
          /\ fs'.frontend = fs.frontend
          /\ fs'.rendered = fs.rendered
          /\ fs'.ci \subseteq fs.ci
          /\ config' = config
          /\ context' = context]_vars

C9_Witness ==
    /\ pc = "done"
    /\ context.frontend.enabled
    /\ args.skip_install
    /\ fs.frontend
    /\ cmds = <<>>

\* C10: remove_frontend on a directory without a frontend subtree launches
\* no command, raises nothing and changes nothing, and a second
\* remove_frontend leaves the directory as the first one left it.
C10_RemoveFrontendIdempotent ==
    /\ [][(call'.n # call.n /\ call'.fn = "remove_frontend" /\ ~fs.frontend) =>
             /\ cmds' = cmds
             /\ fs' = fs
             /\ err' = err
             /\ pc' = pc]_vars
    /\ [](LET once == remove_frontend(fs)
              twice == remove_frontend(once.fs)
          IN  /\ twice.fs = once.fs
              /\ twice.cmds = <<>>
              /\ ~once.fs.frontend
              /\ once.fs.ci = fs.ci)

C10_Witness ==
    /\ call.fn = "remove_frontend"
    /\ call.n = 2
    /\ err = "none"
    /\ Argvs(cmds) = <<<<"rm", "-r", "frontend">>>>
    /\ ~fs.frontend

====
